---- MODULE Spec2Model ----
(***************************************************************************)
(* Model of the command dispatcher of src/dispatcher.py: the Dispatcher    *)
(* object (node_name, reader, db_session, the rabbitmq subscription), its  *)
(* operations run, handle_message and log, the transport that delivers     *)
(* message bodies to the callback, and the reader capabilities that        *)
(* handle_message invokes.                                                 *)
(*                                                                         *)
(* Strings are sequences of tokens: a token is one character of a method   *)
(* name or one literal piece of text. str.lower and str.upper work         *)
(* character by character on the tokens of a name.                         *)
(*                                                                         *)
(* A capability is code outside the dispatcher; what it may do with the    *)
(* message it is passed and with the session is chosen nondeterministically*)
(* (Behaviours). A fault of a capability is an Exception, the class the    *)
(* handler of line 151 names.                                              *)
(*                                                                         *)
(* Spec runs the dispatcher on a store that never fails. SpecStore runs it *)
(* on a store whose add and commit raise after a number of operations.     *)
(***************************************************************************)
EXTENDS Integers, Sequences, FiniteSets, TLC

\* ---------------------------------------------------------------- bounds
MaxMsgs == 2        \* envelopes the transport delivers in one behaviour
MaxStoreOps == 7    \* store operations that succeed before the store fails

\* ------------------------------------------------------------- constants
STATUS_OK == "OK"
STATUS_ERR == "ERR"

None == <<>>

\* ---------------------------------------------------------------- strings
LowerChar(c) == CASE c = "A" -> "a" [] c = "B" -> "b" [] OTHER -> c

UpperChar(c) == CASE c = "a" -> "A" [] c = "b" -> "B" [] OTHER -> c

lower(s) == [i \in 1..Len(s) |-> LowerChar(s[i])]

upper(s) == [i \in 1..Len(s) |-> UpperChar(s[i])]

\* the method names senders put in envelopes
Names == {<<"a">>, <<"A">>, <<"A", "b">>}

\* sub occurs in s as a contiguous run of tokens
Contains(s, sub) ==
    \E i \in 0..(Len(s) - Len(sub)) : \A j \in 1..Len(sub) : s[i + j] = sub[j]

\* ------------------------------------------------------- message bodies
NoMethod == [t |-> "absent", s |-> None]

NumMethod == [t |-> "num", s |-> None]

StrMethod(n) == [t |-> "str", s |-> n]

MethodVals == {NoMethod, NumMethod} \cup {StrMethod(n) : n \in Names}

\* what body.decode("utf8") and json.loads make of the bytes: an error, a
\* JSON value that is not an object, or an object with its fields
NonMapKinds == {"bad_utf8", "bad_json", "list", "number", "string", "null"}

Bodies ==
    {[kind |-> k, method |-> NoMethod, db_session |-> "absent"] : k \in NonMapKinds}
    \cup {[kind |-> "map", method |-> m, db_session |-> d] :
              m \in MethodVals, d \in {"absent", "sender"}}

NoBody == [kind |-> "none", method |-> NoMethod, db_session |-> "absent"]

\* ----------------------------------------------- capabilities (external)
NoRes == [map |-> FALSE, status |-> "absent", message |-> "absent",
          level |-> "absent", data |-> "absent"]

\* a dict a capability returns
Res(st, m, l, d) == [map |-> TRUE, status |-> st, message |-> m, level |-> l, data |-> d]

\* the values a capability returns: None, or a dict with or without status,
\* message, level, data
Results ==
    {NoRes, Res("absent", "absent", "absent", "absent"),
     Res("INFO", "absent", "absent", "absent"),
     Res(STATUS_ERR, "absent", "absent", "unserializable")}
    \cup {Res(STATUS_OK, "absent", "absent", d) : d \in {"absent", "json", "unserializable"}}
    \cup {Res(STATUS_ERR, m, l, "absent") :
              m \in {"absent", "sensor timeout"}, l \in {"absent", "ERROR"}}

\* what the capability does to message["method"] of the dict it is passed
Mutations == {"keep", "rename", "delete", "nonstring"}

RenameTo == <<"b">>

\* rows the capability adds to the session it is passed
Writes == {0, 1}

\* a capability raises or returns, with or without writes, or changes the
\* method of its message and returns
Behaviours ==
    {[raises |-> TRUE, res |-> NoRes, mutation |-> "keep", writes |-> w] : w \in Writes}
    \cup {[raises |-> FALSE, res |-> r, mutation |-> "keep", writes |-> w] :
              r \in Results, w \in Writes}
    \cup {[raises |-> FALSE, res |-> Res(st, "absent", "absent", "absent"),
           mutation |-> mu, writes |-> 0] :
              st \in {STATUS_OK, STATUS_ERR}, mu \in Mutations \ {"keep"}}

NoBehaviour == [raises |-> FALSE, res |-> NoRes, mutation |-> "keep", writes |-> 0]

Mutate(message, mu) ==
    CASE mu = "rename" -> [message EXCEPT !.method = StrMethod(RenameTo)]
      [] mu = "delete" -> [message EXCEPT !.method = NoMethod]
      [] mu = "nonstring" -> [message EXCEPT !.method = NumMethod]
      [] OTHER -> message

\* --------------------------------------------------------------- readers
Attr(name) == <<"handle_">> \o name

\* the readers a Dispatcher is constructed with: the names of their attributes
Readers == { {Attr(<<"a">>)}, {Attr(<<"A">>), Attr(<<"a", "b">>)} }

NodeNames == {"node1", "node2"}

ConsumerTags == {"ctag1"}

\* ----------------------------------------------------------------- state
VARIABLES
    node_name,    \* Dispatcher.node_name
    reader,       \* Dispatcher.reader: the set of its attribute names
    db_session,   \* Dispatcher.db_session: pending objects, committed rows
    consumer_tag, \* the tag of the subscription made by basic_consume
    pc,           \* "init", "idle" (blocked in start_consuming), "handling", "crashed"
    delivered,    \* number of envelopes the transport has delivered
    acked,        \* envelopes acknowledged to the transport
    inflight,     \* envelopes whose handle_message call has not ended
    cur,          \* the envelope passed to the running handle_message call
    last,         \* record of the handle_message call that ended last
    resolutions   \* the (method name, capability) pairs resolved so far

vars == <<node_name, reader, db_session, consumer_tag, pc, delivered, acked,
          inflight, cur, last, resolutions>>

\* ------------------------------------------------------- session and log
\* the session and the store behind it. limited, left: the store fails after
\* left more operations (never when not limited); error: an operation on the
\* store has raised, and the exception is on its way out
NewSession ==
    [pending |-> <<>>, committed |-> <<>>, commits |-> 0,
     limited |-> FALSE, left |-> 0, error |-> FALSE]

\* one operation on the store: nothing runs after an exception, the operation
\* raises when the store has failed, and it counts otherwise
StoreOp(s, done) ==
    IF s.error THEN s
    ELSE IF s.limited /\ s.left = 0 THEN [s EXCEPT !.error = TRUE]
    ELSE IF s.limited THEN [done EXCEPT !.left = @ - 1]
    ELSE done

add(s, obj) == StoreOp(s, [s EXCEPT !.pending = Append(@, obj)])

\* variant: a commit keeps only the rows it writes
commit_Truncate(s) ==
    StoreOp(s, [s EXCEPT !.pending = <<>>,
                         !.committed = [i \in 1..Len(s.pending) |->
                                           [s.pending[i] EXCEPT !.txn = s.commits + 1]],
                         !.commits = @ + 1])

commit(s) ==
    StoreOp(s, [s EXCEPT !.pending = <<>>,
                         !.committed = @ \o
                             [i \in 1..Len(s.pending) |->
                                  [s.pending[i] EXCEPT !.txn = s.commits + 1]],
                         !.commits = @ + 1])

\* variant: the log row carries the consumer tag as its node
Log_TagAsNode(node, level, message, env) ==
    [table |-> "log", node |-> consumer_tag, status |-> level, message |-> message,
     env |-> env, txn |-> 0]

Log(node, level, message, env) ==
    [table |-> "log", node |-> node, status |-> level, message |-> message,
     env |-> env, txn |-> 0]

CapRow(env) ==
    [table |-> "cap", node |-> "", status |-> "", message |-> <<>>,
     env |-> env, txn |-> 0]

\* variant: the entry is added to the session and left uncommitted
log_AddOnly(s, level, message, env) == add(s, Log(node_name, level, message, env))

log(s, level, message, env) == commit(add(s, Log(node_name, level, message, env)))

\* ------------------------------------------------------- handle_message
Return(s, path) == [session |-> s, path |-> path, raised |-> FALSE]

Raise(s, path) == [session |-> s, path |-> path, raised |-> TRUE]

\* variant: the exception of the store is caught and the call returns
StoreError_Absorbed(s, path) == Return(s, path)

\* an exception of the store raised in self.log: no handler of handle_message
\* is in its way (the log calls of lines 133, 145 and 152 are in except
\* blocks, that of line 139 is under `except AttributeError`, those of lines
\* 155 and 161 and the commit of line 167 are outside any try)
StoreError(s, path) == Raise(s, path)

\* the end of a path that has written its log entry
Logged(s, path) == IF s.error THEN StoreError(s, path) ELSE Return(s, path)

decode(body) ==
    CASE body.kind = "bad_utf8" -> [ok |-> FALSE, err |-> "UnicodeDecodeError"]
      [] body.kind = "bad_json" -> [ok |-> FALSE, err |-> "JSONDecodeError"]
      [] OTHER -> [ok |-> TRUE, err |-> ""]

OnDecodeError(s, env, err) ==
    Logged(log(s, "WARNING", <<"Could not decode message: ", err>>, env),
           "decode_error")

getattr(rd, name) == IF name \in rd THEN name ELSE None

\* variant: the lookup uses the method name as sent
Resolve_NoLower(rd, message) ==
    CASE message.kind # "map" -> [exc |-> "TypeError", method |-> None]
      [] message.method.t = "absent" -> [exc |-> "KeyError", method |-> None]
      [] message.method.t # "str" -> [exc |-> "AttributeError", method |-> None]
      [] OTHER -> [exc |-> "none", method |-> getattr(rd, Attr(message.method.s))]

\* line 137: message["method"].lower() and the lookup on the reader
Resolve(rd, message) ==
    CASE message.kind # "map" -> [exc |-> "TypeError", method |-> None]
      [] message.method.t = "absent" -> [exc |-> "KeyError", method |-> None]
      [] message.method.t # "str" -> [exc |-> "AttributeError", method |-> None]
      [] OTHER -> [exc |-> "none",
                   method |-> getattr(rd, Attr(lower(message.method.s)))]

\* variant: the entry names the lower-cased attribute that was looked up
OnNotFound_Lowered(s, env, message) ==
    Logged(log(s, "WARNING",
               <<"Reader ", node_name, " does not implement method ">>
                   \o Attr(lower(message.method.s)), env),
           "not_found")

OnNotFound(s, env, message) ==
    Logged(log(s, "WARNING",
               <<"Reader ", node_name, " does not implement method ">>
                   \o Attr(message.method.s), env),
           "not_found")

OnAttributeError(s, env) ==
    Logged(log(s, "WARNING", <<"Method is not defined">>, env), "no_method")

\* variant: a db_session field sent in the envelope is kept
Inject_KeepSender(message) ==
    IF message.db_session = "absent"
    THEN [message EXCEPT !.db_session = "dispatcher"]
    ELSE message

Inject(message) == [message EXCEPT !.db_session = "dispatcher"]

\* the session after the capability has run: its writes are pending
CapabilityWrites(s, env, beh) ==
    [s EXCEPT !.pending = @ \o [i \in 1..beh.writes |-> CapRow(env)]]

\* variant: the fault of the capability is not caught
OnFault_Propagates(s, env, e) == Raise(s, "fault")

\* variant: the session is rolled back before the fault is logged
OnFault_Rollback(s, env, e) ==
    Logged(log([s EXCEPT !.pending = <<>>], "CRITICAL", <<"python error - ", e>>, env),
           "fault")

OnFault(s, env, e) ==
    Logged(log(s, "CRITICAL", <<"python error - ", e>>, env), "fault")

\* variant: the pending writes are committed before the completion entry
Completion_SeparateCommit(s, env, message, res) ==
    log(commit(s), res.status, upper(message.method.s) \o <<" - ", consumer_tag>>, env)

Completion(s, env, message, res) ==
    log(s, res.status, upper(message.method.s) \o <<" - ", consumer_tag>>, env)

ErrorDetail(s, env, message, res) ==
    IF res.status = STATUS_ERR
    THEN log(s,
             IF res.level = "absent" THEN "WARNING" ELSE res.level,
             upper(message.method.s)
                 \o <<" - ", IF res.message = "absent" THEN "" ELSE res.message,
                      " - ", consumer_tag>>,
             env)
    ELSE s

\* lines 155-167
Interpret(s, env, message, res) ==
    IF ~res.map \/ res.status = "absent" THEN Raise(s, "bad_result")
    ELSE IF message.method.t # "str" THEN Raise(s, "bad_method")
    ELSE LET s1 == Completion(s, env, message, res)
             s2 == ErrorDetail(s1, env, message, res)
             s3 == commit(s2)
         IN  IF s1.error THEN StoreError(s1, "completion")
             ELSE IF s2.error THEN StoreError(s2, "error_detail")
             ELSE IF res.data = "unserializable" THEN Raise(s2, "print_error")
             ELSE IF s3.error THEN StoreError(s3, "commit")
             ELSE Return(s3, "done")

\* str(e) of the exception a capability raises
FaultText == "boom"

\* what one call of the capability leaves: its writes pending in the session,
\* the message dict as it passed it back, the db_session field it was given
Call(s, env, message, beh) ==
    [session |-> CapabilityWrites(s, env, beh),
     message |-> Mutate(Inject(message), beh.mutation),
     seen |-> Inject(message).db_session]

\* variant: a capability that raised is invoked a second time
Invoke_Retry(s, env, message, beh) ==
    LET c1 == Call(s, env, message, beh)
        c2 == Call(c1.session, env, c1.message, beh)
        o == IF beh.raises THEN OnFault(c2.session, env, FaultText)
             ELSE Interpret(c1.session, env, c1.message, beh.res)
    IN  [session |-> o.session, path |-> o.path, raised |-> o.raised,
         invoked |-> IF beh.raises THEN 2 ELSE 1,
         message |-> c1.message, seen |-> c1.seen]

\* lines 148-167
Invoke(s, env, message, beh) ==
    LET c == Call(s, env, message, beh)
        o == IF beh.raises THEN OnFault(c.session, env, FaultText)
             ELSE Interpret(c.session, env, c.message, beh.res)
    IN  [session |-> o.session, path |-> o.path, raised |-> o.raised,
         invoked |-> 1, message |-> c.message, seen |-> c.seen]

\* a path that invokes nothing
NotInvoked(o, message) ==
    [session |-> o.session, path |-> o.path, raised |-> o.raised,
     invoked |-> 0, message |-> message, seen |-> "absent"]

\* lines 118-167: the whole call
handle_message(s, env, body, beh) ==
    LET d == decode(body)
        r == Resolve(reader, body)
    IN  IF ~d.ok THEN NotInvoked(OnDecodeError(s, env, d.err), NoBody)
        ELSE IF r.exc \in {"TypeError", "KeyError"}
             THEN NotInvoked(Raise(s, "resolve_error"), body)
        ELSE IF r.exc = "AttributeError"
             THEN NotInvoked(OnAttributeError(s, env), body)
        ELSE IF r.method = None
             THEN NotInvoked(OnNotFound(s, env, body), body)
        ELSE Invoke(s, env, body, beh)

\* ----------------------------------------------------------------- steps
NoLast == [env |-> 0, body |-> NoBody, beh |-> NoBehaviour, path |-> "none",
           raised |-> FALSE, invoked |-> 0, cap |-> None, seen |-> "absent",
           message |-> NoBody]

Init ==
    /\ node_name \in NodeNames
    /\ reader \in Readers
    /\ db_session = NewSession
    /\ consumer_tag = ""
    /\ pc = "init"
    /\ delivered = 0
    /\ acked = {}
    /\ inflight = {}
    /\ cur = [env |-> 0, body |-> NoBody]
    /\ last = NoLast
    /\ resolutions = {}

\* run(), lines 178-184, up to the blocking start_consuming; an exception of
\* the store in self.log leaves run
Run ==
    /\ pc = "init"
    /\ db_session' = log(db_session, "INFO", <<"Reader added on ", node_name>>, 0)
    /\ IF db_session'.error
       THEN consumer_tag' = consumer_tag /\ pc' = "crashed"
       ELSE consumer_tag' \in ConsumerTags /\ pc' = "idle"
    /\ UNCHANGED <<node_name, reader, delivered, acked, inflight, cur, last,
                   resolutions>>

\* variant: a message is handed over while a callback is still running
Deliver_NoWait ==
    /\ pc \in {"idle", "handling"}
    /\ delivered < MaxMsgs
    /\ \E body \in Bodies :
          cur' = [env |-> delivered + 1, body |-> body]
    /\ delivered' = delivered + 1
    /\ acked' = acked \cup {delivered + 1}
    /\ inflight' = inflight \cup {delivered + 1}
    /\ pc' = "handling"
    /\ UNCHANGED <<node_name, reader, db_session, consumer_tag, last, resolutions>>

\* variant: auto_ack is off and nothing acknowledges the message
Deliver_ManualAck ==
    /\ pc = "idle"
    /\ delivered < MaxMsgs
    /\ \E body \in Bodies :
          cur' = [env |-> delivered + 1, body |-> body]
    /\ delivered' = delivered + 1
    /\ inflight' = inflight \cup {delivered + 1}
    /\ pc' = "handling"
    /\ UNCHANGED <<node_name, reader, db_session, consumer_tag, last, resolutions,
                   acked>>

\* start_consuming hands the next message to the callback; auto_ack=True
\* acknowledges it on delivery
Deliver ==
    /\ pc = "idle"
    /\ delivered < MaxMsgs
    /\ \E body \in Bodies :
          cur' = [env |-> delivered + 1, body |-> body]
    /\ delivered' = delivered + 1
    /\ acked' = acked \cup {delivered + 1}
    /\ inflight' = inflight \cup {delivered + 1}
    /\ pc' = "handling"
    /\ UNCHANGED <<node_name, reader, db_session, consumer_tag, last, resolutions>>

\* the callback runs to its end: it returns, or an exception leaves it and
\* start_consuming, and run, with it
HandleMessage ==
    /\ pc = "handling"
    /\ \E beh \in Behaviours :
          LET o == handle_message(db_session, cur.env, cur.body, beh)
          IN  /\ (o.invoked = 0 => beh = NoBehaviour)
              /\ db_session' = o.session
              /\ last' = [env |-> cur.env, body |-> cur.body, beh |-> beh,
                          path |-> o.path, raised |-> o.raised,
                          invoked |-> o.invoked,
                          cap |-> IF o.invoked = 0 THEN None
                                  ELSE Resolve(reader, cur.body).method,
                          seen |-> o.seen, message |-> o.message]
              /\ resolutions' =
                    IF Resolve(reader, cur.body).exc = "none" /\ decode(cur.body).ok
                    THEN resolutions \cup
                             {[m |-> cur.body.method.s,
                               cap |-> Resolve(reader, cur.body).method]}
                    ELSE resolutions
              /\ pc' = IF o.raised THEN "crashed" ELSE "idle"
    /\ inflight' = inflight \ {cur.env}
    /\ UNCHANGED <<node_name, reader, consumer_tag, delivered, acked, cur>>

Next == Run \/ Deliver \/ HandleMessage

Spec == Init /\ [][Next]_vars

\* the same dispatcher on a store that fails after some operations
InitStore ==
    /\ node_name = "node1"
    /\ reader = {Attr(<<"a">>)}
    /\ \E k \in 0..MaxStoreOps :
          db_session = [NewSession EXCEPT !.limited = TRUE, !.left = k]
    /\ consumer_tag = ""
    /\ pc = "init"
    /\ delivered = 0
    /\ acked = {}
    /\ inflight = {}
    /\ cur = [env |-> 0, body |-> NoBody]
    /\ last = NoLast
    /\ resolutions = {}

SpecStore == InitStore /\ [][Next]_vars

\* ================================================================ claims
\* the committed rows of the log table
LogRows == SelectSeq(db_session.committed, LAMBDA r : r.table = "log")

\* the log entries written for envelope e, in log order
EntriesOf(e) == SelectSeq(LogRows, LAMBDA r : r.env = e)

\* a handle_message call has ended; last describes it
Dispatched == last.env > 0

\* the body decodes to a map with a string method
DecodesToEnvelope(body) == body.kind = "map" /\ body.method.t = "str"

\* the capability of the last call was invoked and returned res
Returned == Dispatched /\ last.invoked = 1 /\ ~last.beh.raises

\* C1: every delivered envelope, once its handle_message call has ended, has
\* at least one entry in the log.
C1_TotalLogging == Dispatched => Len(EntriesOf(last.env)) >= 1

\* C2: a body that does not decode to a map with a string method gets exactly
\* one entry, with status WARNING; no capability is invoked and the call
\* returns without raising.
C2_DecodeFailureIsolation ==
    (Dispatched /\ ~DecodesToEnvelope(last.body)) =>
        LET E == EntriesOf(last.env)
        IN  /\ Len(E) = 1
            /\ E[1].status = "WARNING"
            /\ last.invoked = 0
            /\ ~last.raised

\* C3: when the resolved capability raises a fault, the envelope gets exactly
\* one entry, with status CRITICAL and the fault description, and no
\* completion entry; the call returns without raising and the loop is back
\* in start_consuming, where the next message is delivered and dispatched.
C3_FaultContainment ==
    (Dispatched /\ last.invoked = 1 /\ last.beh.raises) =>
        LET E == EntriesOf(last.env)
        IN  /\ Len(E) = 1
            /\ E[1].status = "CRITICAL"
            /\ Contains(E[1].message, <<FaultText>>)
            /\ ~last.raised
            /\ pc \in {"idle", "handling"}
            /\ (pc = "handling" => cur.env = last.env + 1)
            /\ ((pc = "idle" /\ delivered < MaxMsgs) => ENABLED Deliver)

\* C3 witness: a capability raised for one envelope and the next envelope has
\* its own entry in the log.
C3_Witness ==
    \E i, j \in 1..Len(LogRows) :
        /\ LogRows[i].status = "CRITICAL"
        /\ Contains(LogRows[i].message, <<FaultText>>)
        /\ LogRows[j].env = LogRows[i].env + 1

\* the envelope of the last call is malformed, unresolvable, faulting or
\* ERR-returning
BadMessage ==
    \/ ~DecodesToEnvelope(last.body)
    \/ last.invoked = 0
    \/ last.beh.raises
    \/ last.beh.res.status = STATUS_ERR

\* C4: the loop is still consuming after a malformed, unresolvable, faulting
\* or ERR-returning message, and a well-formed message whose capability
\* returns status OK gets its completion entry.
C4_LoopLiveness ==
    Dispatched =>
        /\ (BadMessage => (~last.raised /\ pc # "crashed"))
        /\ ((Returned /\ last.beh.res.status = STATUS_OK) =>
                \E i \in 1..Len(EntriesOf(last.env)) :
                    EntriesOf(last.env)[i].status = STATUS_OK)

\* C5: a result without status gets a CRITICAL entry and the call returns
\* without raising.
C5_MissingStatus ==
    (Returned /\ last.beh.res.map /\ last.beh.res.status = "absent") =>
        /\ \E i \in 1..Len(EntriesOf(last.env)) :
               EntriesOf(last.env)[i].status = "CRITICAL"
        /\ ~last.raised

\* C6: an envelope whose string method m has no attribute handle_<lower(m)>
\* on the reader gets exactly one entry, with status WARNING and a message
\* naming the node and m; no capability is invoked and the call returns.
C6_UnknownMethodIsolation ==
    (/\ Dispatched
     /\ DecodesToEnvelope(last.body)
     /\ Attr(lower(last.body.method.s)) \notin reader) =>
        LET E == EntriesOf(last.env)
        IN  /\ Len(E) = 1
            /\ E[1].status = "WARNING"
            /\ Contains(E[1].message, <<node_name>>)
            /\ Contains(E[1].message, last.body.method.s)
            /\ last.invoked = 0
            /\ ~last.raised

\* C6 witness: an envelope with an upper-case method name that the reader
\* does not implement has been dispatched.
C6_Witness ==
    /\ Dispatched
    /\ DecodesToEnvelope(last.body)
    /\ Attr(lower(last.body.method.s)) \notin reader
    /\ last.body.method.s # lower(last.body.method.s)
    /\ last.path = "not_found"
    /\ Len(EntriesOf(last.env)) = 1

\* C7: a result with status ERR gets exactly two entries, the completion
\* entry (status ERR, message '<METHOD> - <consumer tag>') and then the
\* error-detail entry (status the declared level, WARNING without one,
\* message with the result's message and the consumer tag); a result with
\* another status gets no error-detail entry.
C7_ErrorDuplication ==
    (Returned /\ last.beh.res.map) =>
        LET E == EntriesOf(last.env)
            res == last.beh.res
        IN  /\ (res.status = STATUS_ERR =>
                  /\ Len(E) = 2
                  /\ E[1].status = STATUS_ERR
                  /\ E[1].message = upper(last.body.method.s) \o <<" - ", consumer_tag>>
                  /\ E[2].status = (IF res.level = "absent" THEN "WARNING" ELSE res.level)
                  /\ Contains(E[2].message,
                              <<IF res.message = "absent" THEN "" ELSE res.message>>)
                  /\ Contains(E[2].message, <<consumer_tag>>))
            /\ (res.status # STATUS_ERR => Len(E) <= 1)

\* C8: an envelope whose method resolves and whose capability returns status
\* OK has its capability invoked once and gets exactly one entry, with status
\* OK and a message with the upper-cased method name and the consumer tag,
\* with or without data in the result.
C8_SuccessfulDispatch ==
    (Returned /\ last.beh.res.status = STATUS_OK) =>
        LET E == EntriesOf(last.env)
        IN  /\ last.invoked = 1
            /\ Len(E) = 1
            /\ E[1].status = STATUS_OK
            /\ Contains(E[1].message, upper(last.body.method.s))
            /\ Contains(E[1].message, <<consumer_tag>>)

\* C9: the capability resolved for method name m is the reader attribute
\* handle_<lower(m)>, or none when the reader has no such attribute; two names
\* that differ only in letter case resolve to the same capability.
C9_CaseNormalizedResolution ==
    \A p \in resolutions :
        /\ p.cap = (IF Attr(lower(p.m)) \in reader THEN Attr(lower(p.m)) ELSE None)
        /\ \A q \in resolutions : upper(p.m) = upper(q.m) => p.cap = q.cap

\* C9 witness: two method names that differ in letter case have both been
\* resolved, to the same capability of the reader.
C9_Witness ==
    \E p, q \in resolutions :
        /\ p.m # q.m
        /\ upper(p.m) = upper(q.m)
        /\ p.cap # None
        /\ p.cap = q.cap

\* C10: at most one handle_message call is in flight, it is the call for the
\* envelope delivered last, and the log entries are in delivery order.
C10_SequentialOrdered ==
    /\ Cardinality(inflight) <= 1
    /\ inflight \subseteq {delivered}
    /\ (pc # "handling" => inflight = {})
    /\ \A i, j \in 1..Len(LogRows) :
           i < j => LogRows[i].env <= LogRows[j].env

\* C10 witness: two envelopes have been dispatched and both have entries in
\* the log, those of the first before those of the second.
C10_Witness ==
    /\ pc = "idle"
    /\ delivered = 2
    /\ \E i, j \in 1..Len(LogRows) :
           i < j /\ LogRows[i].env = 1 /\ LogRows[j].env = 2

\* the committed rows that capabilities wrote for envelope e
CapRowsOf(e) ==
    SelectSeq(db_session.committed, LAMBDA r : r.table = "cap" /\ r.env = e)

\* C11: every delivered envelope is acknowledged, whatever became of its
\* dispatch: the acknowledged envelopes are exactly the delivered ones.
C11_AlwaysAcknowledge ==
    /\ acked = 1..delivered
    /\ (Dispatched => last.env \in acked)

\* C11 witness: an envelope whose dispatch ended with an exception is
\* acknowledged.
C11_Witness == Dispatched /\ last.raised /\ last.env \in acked

\* C12: whenever handle_message has returned, the session holds nothing
\* uncommitted: the entries of an envelope are committed before the next
\* envelope is dispatched.
C12_CommitBeforeNext == pc # "crashed" => db_session.pending = <<>>

\* C12 witness: the second envelope is being dispatched and the two entries of
\* the first (completion and error detail) are committed.
C12_Witness ==
    /\ pc = "handling"
    /\ cur.env = 2
    /\ Len(EntriesOf(1)) = 2
    /\ db_session.pending = <<>>

\* C13 (as claimed): when the capability returned, its writes and all the log
\* entries of the envelope are committed by one commit.
C13_JointCommit ==
    (Returned /\ ~last.raised) =>
        \A i, j \in 1..Len(db_session.committed) :
            (db_session.committed[i].env = last.env
             /\ db_session.committed[j].env = last.env)
                => db_session.committed[i].txn = db_session.committed[j].txn

\* C13 (amended): the writes a capability left pending are committed by the
\* commit of the first log entry of the envelope, the error-detail entry of an
\* ERR result by the commit after it, and all of it before the call returns.
C13_CommitWithFirstEntry ==
    /\ \A i \in 1..Len(db_session.committed) :
           LET r == db_session.committed[i]
           IN  r.table = "cap" =>
                   /\ Len(EntriesOf(r.env)) >= 1
                   /\ EntriesOf(r.env)[1].txn = r.txn
    /\ (Returned /\ ~last.raised) =>
           LET E == EntriesOf(last.env)
           IN  /\ Len(CapRowsOf(last.env)) = last.beh.writes
               /\ Len(E) >= 1
               /\ (Len(E) = 2 => E[2].txn = E[1].txn + 1)
               /\ db_session.pending = <<>>

\* C13 witness: a capability wrote a row and returned an ERR result, and the
\* dispatch is complete.
C13_Witness ==
    /\ Returned
    /\ last.path = "done"
    /\ last.beh.writes = 1
    /\ last.beh.res.status = STATUS_ERR
    /\ Len(CapRowsOf(last.env)) = 1
    /\ Len(EntriesOf(last.env)) = 2

\* C14: every step leaves the log entries written so far as they are, in
\* their places, and only appends.
C14_AppendOnly ==
    [][/\ Len(LogRows') >= Len(LogRows)
       /\ \A i \in 1..Len(LogRows) : LogRows'[i] = LogRows[i]]_vars

\* C14 witness: the log holds the entry of run and the entries of two
\* envelopes.
C14_Witness ==
    /\ Len(LogRows) >= 4
    /\ Len(EntriesOf(1)) >= 1
    /\ Len(EntriesOf(2)) >= 1

\* C15: a handle_message call invokes at most one capability, at most once,
\* and its writes are in the session once, whatever the outcome.
C15_NoRetry ==
    Dispatched =>
        /\ last.invoked <= 1
        /\ (last.invoked = 0 => last.cap = None)
        /\ Len(CapRowsOf(last.env))
             + Len(SelectSeq(db_session.pending, LAMBDA r : r.env = last.env))
               <= last.beh.writes

\* C15 witness: a capability that wrote a row and raised was invoked once.
C15_Witness ==
    /\ Dispatched
    /\ last.path = "fault"
    /\ last.beh.writes = 1
    /\ last.invoked = 1
    /\ Len(CapRowsOf(last.env)) = 1

\* the paths of handle_message on which a log entry is written
LogPaths == {"decode_error", "not_found", "no_method", "fault", "completion",
             "error_detail"}

\* C16: when the store raises while an entry is appended, on any path, the
\* exception leaves handle_message (or run) and the loop has stopped.
C16_StoreFailureFatal ==
    db_session.error =>
        /\ pc = "crashed"
        /\ (delivered > 0 =>
               /\ last.env = delivered
               /\ last.raised
               /\ last.path \in LogPaths \cup {"commit"})

\* C16 witness: the store failed under the error-detail entry, after the
\* completion entry was written, and the loop has stopped.
C16_Witness ==
    /\ db_session.error
    /\ last.path = "error_detail"
    /\ Len(EntriesOf(last.env)) = 1
    /\ pc = "crashed"

\* C17: when a capability adds writes to the session and raises, the writes
\* are committed by the commit of the CRITICAL entry of that envelope.
C17_PartialWritesSurvive ==
    (Dispatched /\ last.path = "fault" /\ ~last.raised) =>
        LET E == EntriesOf(last.env)
            C == CapRowsOf(last.env)
        IN  /\ Len(E) = 1
            /\ E[1].status = "CRITICAL"
            /\ Len(C) = last.beh.writes
            /\ \A i \in 1..Len(C) : C[i].txn = E[1].txn

\* C17 witness: a capability added a row and raised, and the row is committed.
C17_Witness ==
    /\ Dispatched
    /\ last.path = "fault"
    /\ last.beh.writes = 1
    /\ Len(CapRowsOf(last.env)) = 1
    /\ Len(EntriesOf(last.env)) = 1

\* C18: the method of the decoded envelope is the same at the end of the
\* dispatch, and the completion and error-detail entries carry the upper-cased
\* method name that was decoded, also when the capability changes its message.
C18_EnvelopeImmutable ==
    (Returned /\ last.beh.res.map /\ last.beh.res.status # "absent") =>
        LET E == EntriesOf(last.env)
            m == upper(last.body.method.s)
        IN  /\ last.message.method = last.body.method
            /\ Len(E) >= 1
            /\ \A i \in 1..Len(E) :
                   /\ Len(E[i].message) >= Len(m)
                   /\ SubSeq(E[i].message, 1, Len(m)) = m

\* C19: node_name is never reassigned and every log entry carries it as its
\* node.
C19_NodeIdentity ==
    /\ [](\A i \in 1..Len(LogRows) : LogRows[i].node = node_name)
    /\ [][node_name' = node_name]_vars

\* C19 witness: two envelopes have been dispatched, the last with a
\* db_session field of the sender, and the log has their entries.
C19_Witness ==
    /\ delivered = 2
    /\ pc = "idle"
    /\ last.body.db_session = "sender"
    /\ Len(EntriesOf(1)) >= 1
    /\ Len(EntriesOf(2)) >= 1

\* C20: the db_session field of the message a capability receives is the
\* session of the dispatcher, also when the envelope carried such a field.
C20_SessionInjection ==
    (Dispatched /\ last.invoked >= 1) => last.seen = "dispatcher"

\* C20 witness: a capability was invoked for an envelope that carried a
\* db_session field of the sender.
C20_Witness ==
    /\ Dispatched
    /\ last.invoked = 1
    /\ last.body.db_session = "sender"
    /\ last.seen = "dispatcher"

====
